---- MODULE Spec2Model ----
(***************************************************************************)
(* Model of dataiku_gitops_action.py: deploy(infra_id), which reconciles   *)
(* the Dataiku Project Deployer with the bundle of the current Git commit, *)
(* and main(), which stages, verifies, promotes and verifies.              *)
(*                                                                         *)
(* The remote side (Design node project, Project Deployer) is state of the *)
(* model.  Every remote call of deploy is one action; a remote call either *)
(* answers from the remote state or fails with a transient error, which    *)
(* the environment may inject at most MaxFaults times in one behaviour.    *)
(***************************************************************************)
EXTENDS Integers, Sequences, FiniteSets, TLC

(* ------------------------------ bounds --------------------------------- *)
\* transient remote errors the environment injects in one behaviour
MaxFaults == 1
\* moves of the Git HEAD by the environment in one behaviour
MaxHeadChanges == 1
\* deploy calls issued by the direct caller of deploy (specification SpecDeploy)
MaxCalls == 2

(* --------------------------- configuration ----------------------------- *)
DATAIKU_PROJECT_KEY == "MYPROJ"
DATAIKU_INFRA_ID_STAGING == "staging"
DATAIKU_INFRA_ID_PROD == "prod"
Infras == {DATAIKU_INFRA_ID_STAGING, DATAIKU_INFRA_ID_PROD}

\* the modules the script imports (lines 1-5)
Imports == {"os", "subprocess", "traceback", "dataikuapi", "urllib3"}

\* what `git rev-parse --short HEAD` can see: a short SHA, or no checkout
NoGit == "<no git>"
ShortShas == {"abc1234", "def5678"}
Heads == ShortShas \cup {NoGit}

(* ------------------------------ helpers -------------------------------- *)
Last(s) == s[Len(s)]

\* Python's `needle in haystack`, on messages kept as sequences of words
Contains(needle, s) ==
    \E i \in 1..(Len(s) - Len(needle) + 1) :
        SubSeq(s, i, i + Len(needle) - 1) = needle

get_git_sha(h) == IF h = NoGit THEN "manual-test" ELSE h

generate_bundle_id(commit) == "bundle_" \o commit

deployment_id_of(key, infra) == "deploy_" \o key \o "_" \o infra

CommitIds == {get_git_sha(h) : h \in Heads}
BundleIds == {generate_bundle_id(c) : c \in CommitIds}
DeploymentIds == {deployment_id_of(DATAIKU_PROJECT_KEY, i) : i \in Infras}

\* the bundles earlier runs may have left on the remote side
InitBundleIds == {generate_bundle_id(c) : c \in {"abc1234", "manual-test"}}

\* messages of the exceptions the remote API raises
ErrAlreadyExists == <<"Bundle", "already", "exists">>
ErrNotFound == <<"Not", "found">>
ErrRemote == <<"Connection", "error">>

VARIABLES
    \* remote state
    projectBundles,     \* bundles exported in the Design-node project
    deployerProject,    \* the Deployer has a record of the project
    deployerBundles,    \* bundles published to the Deployer
    deployments,        \* deployment objects of the Deployer
    startDeployments,   \* the deployment objects when the run started
    \* environment
    head,               \* what git sees
    headChanges,
    faults,
    RUN_TESTS_ONLY,
    \* frame of the running (or last finished) deploy call
    dpc,                \* position in deploy
    infra_id,
    commit_id,
    bundle_id,
    bundle_exists,
    deployment,         \* the deployment handle: its id, or "None"
    calls,              \* remote calls of this deploy call, in order
    \* caller
    pc,                 \* position in main, or "harness"
    history,            \* finished deploy calls of this run, in order
    ncalls,             \* deploy calls issued by the direct caller
    tests,              \* verification results of this run, in order
    exitStatus,         \* process exit status, -1 while running
    endedAt             \* the position at which main ended

remoteVars == <<projectBundles, deployerProject, deployerBundles, deployments, startDeployments>>
envVars == <<head, headChanges, faults, RUN_TESTS_ONLY>>
frameVars == <<dpc, infra_id, commit_id, bundle_id, bundle_exists, deployment, calls>>
mainVars == <<pc, history, ncalls, tests, exitStatus, endedAt>>
vars == <<remoteVars, envVars, frameVars, mainVars>>

(* ---------------------------- remote state ----------------------------- *)
Deployment(id, key, infra, bundle) ==
    [deploymentId |-> id, projectKey |-> key, infraId |-> infra, bundleId |-> bundle]

DeploymentExists(id) == \E d \in deployments : d.deploymentId = id

BoundBundle(id) ==
    IF DeploymentExists(id)
    THEN (CHOOSE d \in deployments : d.deploymentId = id).bundleId
    ELSE "None"

\* a log entry of one remote call
Call(op, arg, ok, err, ret) == [op |-> op, arg |-> arg, ok |-> ok, err |-> err, ret |-> ret]

CanFault == faults < MaxFaults


(* ------------------------- the remote interface ------------------------ *)
\* an answer of a remote call: it returned `ret`, or raised `err`
Ok(ret) == [ok |-> TRUE, err |-> <<>>, ret |-> ret, fault |-> FALSE]
Fail(err) == [ok |-> FALSE, err |-> err, ret |-> {}, fault |-> FALSE]
TransientFault ==
    IF CanFault THEN {[ok |-> FALSE, err |-> ErrRemote, ret |-> {}, fault |-> TRUE]} ELSE {}

\* deployer.get_project(key).list_bundles(): fails if the project is unknown
list_bundles(key) ==
    (IF deployerProject THEN {Ok(deployerBundles)} ELSE {Fail(ErrNotFound)})
        \cup TransientFault

\* project.export_bundle(id): fails with "already exists" for an exported bundle
export_bundle(bid) ==
    (IF bid \in projectBundles THEN {Fail(ErrAlreadyExists)} ELSE {Ok({})})
        \cup TransientFault

\* project.publish_bundle(id): publishes an exported bundle the Deployer lacks
publish_bundle(bid) ==
    (IF bid \notin projectBundles THEN {Fail(ErrNotFound)}
     ELSE IF bid \in deployerBundles THEN {Fail(ErrAlreadyExists)}
     ELSE {Ok({})})
        \cup TransientFault

\* deployer.get_deployment(id).get_settings(): fails if there is no such deployment
get_deployment(id) ==
    (IF DeploymentExists(id) THEN {Ok({BoundBundle(id)})} ELSE {Fail(ErrNotFound)})
        \cup TransientFault

\* settings.save()
save_settings(id) == {Ok({})} \cup TransientFault

\* deployer.create_deployment(...): the Deployer refuses an identifier it holds
create_deployment(id) ==
    (IF DeploymentExists(id) THEN {Fail(<<"Deployment", "already", "exists">>)} ELSE {Ok({})})
        \cup TransientFault

\* deployment.start_update()
start_update(id) == {Ok({})} \cup TransientFault

\* update.wait_for_result(): returns the terminal result of the activation
wait_for_result(id) == {Ok({"SUCCESS"}), Ok({"FAILURE"})} \cup TransientFault

(* ------------------------- decisions of deploy ------------------------- *)
\* the loop that never matches
BundleFound_Never(bundles, bid) == FALSE

\* lines 100-103: the loop over the listed bundles
BundleFound(bundles, bid) == \E b \in bundles : b = bid

\* the export that is not skipped
AfterBundleCheck_AlwaysExport(exists) == "export"

\* lines 108-112: skip the export, or export
AfterBundleCheck(exists) == IF exists THEN "get" ELSE "export"

\* no export error is swallowed; every export error is swallowed
SwallowExportError_None(e) == FALSE
SwallowExportError_All(e) == TRUE

\* lines 117-121: the export error that is swallowed
SwallowExportError(e) == Contains(<<"already", "exists">>, e)

\* lines 115-124: after export_bundle
AfterExport(r) == IF r.ok \/ SwallowExportError(r.err) THEN "publish" ELSE "raised"

\* the failed publish is not acted on
AfterPublish_Ignore(r) == "get"

\* lines 124-125, with the handler of lines 158-160
AfterPublish(r) == IF r.ok THEN "get" ELSE "raised"

\* lines 136-138 and the bare except of line 142
AfterGetDeployment(r) == IF r.ok THEN "save" ELSE "create"

\* lines 139-141 and the bare except of line 142
AfterSave(r) == IF r.ok THEN "start" ELSE "create"

\* lines 145-150, with the handler of lines 158-160
AfterCreate(r) == IF r.ok THEN "start" ELSE "raised"

\* the failed start of the activation is tried again
AfterStartUpdate_Retry(r) == IF r.ok THEN "wait" ELSE "start"

\* line 154
AfterStartUpdate(r) == IF r.ok THEN "wait" ELSE "raised"

\* lines 155-156: the value wait_for_result returns is not looked at
AfterWaitForResult(r) == IF r.ok THEN "returned" ELSE "raised"

\* the settings saved as they were read
WithBundle_Unchanged(d, bid) == d

\* line 139: the settings of the deployment with the bundle replaced
WithBundle(d, bid) == [d EXCEPT !.bundleId = bid]

\* the failed listing is raised instead of passed over
AfterListing_Propagate(r, exists) == IF r.ok THEN AfterBundleCheck(exists) ELSE "raised"

\* lines 96-108: a listing that fails is passed over (except: pass), the
\* bundle counts as not found, and line 108 decides
AfterListing(r, exists) == AfterBundleCheck(exists)

(* ------------------------------ deploy --------------------------------- *)
Logged(op, arg, r) ==
    /\ calls' = Append(calls, Call(op, arg, r.ok, r.err, r.ret))
    /\ faults' = faults + (IF r.fault THEN 1 ELSE 0)

\* lines 86-95: entry of deploy(infra)
DeployEnter(infra) ==
    /\ infra_id' = infra
    /\ commit_id' = get_git_sha(head)
    /\ bundle_id' = generate_bundle_id(get_git_sha(head))
    /\ bundle_exists' = FALSE
    /\ deployment' = "None"
    /\ calls' = <<>>
    /\ dpc' = "list"

\* lines 96-112
DeployListBundles ==
    /\ dpc = "list"
    /\ \E r \in list_bundles(DATAIKU_PROJECT_KEY) :
        /\ bundle_exists' = (r.ok /\ BundleFound(r.ret, bundle_id))
        /\ dpc' = AfterListing(r, r.ok /\ BundleFound(r.ret, bundle_id))
        /\ Logged("list_bundles", <<DATAIKU_PROJECT_KEY>>, r)
    /\ UNCHANGED <<remoteVars, head, headChanges, RUN_TESTS_ONLY, mainVars>>
    /\ UNCHANGED <<infra_id, commit_id, bundle_id, deployment>>

\* lines 115-121
DeployExportBundle ==
    /\ dpc = "export"
    /\ \E r \in export_bundle(bundle_id) :
        /\ projectBundles' = IF r.ok THEN projectBundles \cup {bundle_id} ELSE projectBundles
        /\ dpc' = AfterExport(r)
        /\ Logged("export_bundle", <<bundle_id>>, r)
    /\ UNCHANGED <<deployerProject, deployerBundles, deployments, startDeployments>>
    /\ UNCHANGED <<head, headChanges, RUN_TESTS_ONLY, mainVars>>
    /\ UNCHANGED <<infra_id, commit_id, bundle_id, bundle_exists, deployment>>

\* lines 124-125
DeployPublishBundle ==
    /\ dpc = "publish"
    /\ \E r \in publish_bundle(bundle_id) :
        /\ deployerBundles' = IF r.ok THEN deployerBundles \cup {bundle_id} ELSE deployerBundles
        /\ deployerProject' = (deployerProject \/ r.ok)
        /\ dpc' = AfterPublish(r)
        /\ Logged("publish_bundle", <<bundle_id>>, r)
    /\ UNCHANGED <<projectBundles, deployments, startDeployments>>
    /\ UNCHANGED <<head, headChanges, RUN_TESTS_ONLY, mainVars>>
    /\ UNCHANGED <<infra_id, commit_id, bundle_id, bundle_exists, deployment>>

\* lines 130-138
DeployGetDeployment ==
    /\ dpc = "get"
    /\ LET id == deployment_id_of(DATAIKU_PROJECT_KEY, infra_id) IN
       \E r \in get_deployment(id) :
        /\ deployment' = IF r.ok THEN id ELSE "None"
        /\ dpc' = AfterGetDeployment(r)
        /\ Logged("get_deployment", <<id>>, r)
    /\ UNCHANGED <<remoteVars, head, headChanges, RUN_TESTS_ONLY, mainVars>>
    /\ UNCHANGED <<infra_id, commit_id, bundle_id, bundle_exists>>

\* lines 139-141
DeploySaveSettings ==
    /\ dpc = "save"
    /\ \E r \in save_settings(deployment) :
        /\ deployments' =
              IF r.ok
              THEN {IF d.deploymentId = deployment THEN WithBundle(d, bundle_id) ELSE d :
                        d \in deployments}
              ELSE deployments
        /\ dpc' = AfterSave(r)
        /\ Logged("save_settings", <<deployment, bundle_id>>, r)
    /\ UNCHANGED <<projectBundles, deployerProject, deployerBundles, startDeployments>>
    /\ UNCHANGED <<head, headChanges, RUN_TESTS_ONLY, mainVars>>
    /\ UNCHANGED <<infra_id, commit_id, bundle_id, bundle_exists, deployment>>

\* lines 142-150
DeployCreateDeployment ==
    /\ dpc = "create"
    /\ LET id == deployment_id_of(DATAIKU_PROJECT_KEY, infra_id) IN
       \E r \in create_deployment(id) :
        /\ deployments' =
              IF r.ok
              THEN deployments \cup {Deployment(id, DATAIKU_PROJECT_KEY, infra_id, bundle_id)}
              ELSE deployments
        /\ deployment' = IF r.ok THEN id ELSE deployment
        /\ dpc' = AfterCreate(r)
        /\ Logged("create_deployment", <<id, DATAIKU_PROJECT_KEY, infra_id, bundle_id>>, r)
    /\ UNCHANGED <<projectBundles, deployerProject, deployerBundles, startDeployments>>
    /\ UNCHANGED <<head, headChanges, RUN_TESTS_ONLY, mainVars>>
    /\ UNCHANGED <<infra_id, commit_id, bundle_id, bundle_exists>>

\* lines 153-154
DeployStartUpdate ==
    /\ dpc = "start"
    /\ \E r \in start_update(deployment) :
        /\ dpc' = AfterStartUpdate(r)
        /\ Logged("start_update", <<deployment>>, r)
    /\ UNCHANGED <<remoteVars, head, headChanges, RUN_TESTS_ONLY, mainVars>>
    /\ UNCHANGED <<infra_id, commit_id, bundle_id, bundle_exists, deployment>>

\* lines 155-160
DeployWaitForResult ==
    /\ dpc = "wait"
    /\ \E r \in wait_for_result(deployment) :
        /\ dpc' = AfterWaitForResult(r)
        /\ Logged("wait_for_result", <<deployment>>, r)
    /\ UNCHANGED <<remoteVars, head, headChanges, RUN_TESTS_ONLY, mainVars>>
    /\ UNCHANGED <<infra_id, commit_id, bundle_id, bundle_exists, deployment>>

DeployFinished == dpc \in {"returned", "raised"}

\* the finished deploy call, as its caller sees it: how it ended, the remote
\* operations it called and which of them went through, and the bundle the
\* deployment of its infra is bound to at its end
FrameRecord ==
    [infra_id |-> infra_id, commit_id |-> commit_id, bundle_id |-> bundle_id,
     outcome |-> dpc,
     ops |-> {<<calls[i].op, calls[i].ok>> : i \in DOMAIN calls},
     bound |-> BoundBundle(deployment_id_of(DATAIKU_PROJECT_KEY, infra_id))]


(* ------------------------------- main ---------------------------------- *)
\* run_tests (lines 56-77): True on return code 0, False otherwise or on an error
run_tests(returncode, error) == ~error /\ returncode = 0
TestRuns == {run_tests(rc, e) : rc \in {0, 1}, e \in BOOLEAN}

\* sys.exit(code) inside the try of main (lines 165-205).  With sys imported it
\* raises SystemExit(code), which `except Exception` lets through.  Without it,
\* the name lookup raises NameError, the handler of line 202 catches it, and the
\* sys.exit(1) of line 205 raises NameError again, uncaught: exit status 1.
SysExit(code) == IF "sys" \in Imports THEN code ELSE 1

\* the exception of deploy is passed over
AfterDeploy_Ignore(outcome, next) == next

\* lines 170-174 and 190-194: deploy returned, or raised into the handler
AfterDeploy(outcome, next) == IF outcome = "returned" THEN next ELSE "except"

\* the early-exit flag is not looked at; the result of the tests is not looked at
AfterStagingTests_IgnoreFlag(tests_passed, flag) ==
    IF ~tests_passed THEN "exit1" ELSE "promote"
AfterStagingTests_IgnoreResult(tests_passed, flag) ==
    IF flag THEN "exit0" ELSE "promote"

\* lines 176-190
AfterStagingTests(tests_passed, flag) ==
    IF ~tests_passed THEN "exit1" ELSE IF flag THEN "exit0" ELSE "promote"

\* the failed prod tests are not acted on
AfterProdTests_AlwaysReturn(prod_tests_passed) == "return"

\* lines 196-200
AfterProdTests(prod_tests_passed) == IF prod_tests_passed THEN "return" ELSE "exit1"

Exit(status, at) ==
    /\ pc' = "done"
    /\ exitStatus' = status
    /\ endedAt' = at

\* lines 166-170
MainDeployStaging ==
    /\ pc = "start"
    /\ pc' = "stage"
    /\ DeployEnter(DATAIKU_INFRA_ID_STAGING)
    /\ UNCHANGED <<remoteVars, envVars, history, ncalls, tests, exitStatus, endedAt>>

\* line 170 returns (then line 174 starts the tests), or raises (lines 202-205)
MainStagingDeployed ==
    /\ pc = "stage"
    /\ DeployFinished
    /\ history' = Append(history, FrameRecord)
    /\ IF AfterDeploy(dpc, "verify_staging") = "verify_staging"
       THEN /\ pc' = "verify_staging"
            /\ UNCHANGED <<exitStatus, endedAt>>
       ELSE Exit(SysExit(1), "stage")
    /\ UNCHANGED <<remoteVars, envVars, frameVars, ncalls, tests>>

\* lines 174-190: the staging tests end
MainStagingTested ==
    /\ pc = "verify_staging"
    /\ \E passed \in TestRuns :
        /\ tests' = Append(tests, [env |-> DATAIKU_INFRA_ID_STAGING, passed |-> passed])
        /\ LET next == AfterStagingTests(passed, RUN_TESTS_ONLY) IN
           CASE next = "exit1" ->
                    /\ Exit(SysExit(1), "verify_staging")
                    /\ UNCHANGED frameVars
             [] next = "exit0" ->
                    /\ Exit(SysExit(0), "early_exit")
                    /\ UNCHANGED frameVars
             [] OTHER ->
                    /\ pc' = "promote"
                    /\ DeployEnter(DATAIKU_INFRA_ID_PROD)
                    /\ UNCHANGED <<exitStatus, endedAt>>
    /\ UNCHANGED <<remoteVars, envVars, history, ncalls>>

\* line 190 returns (then line 194 starts the tests), or raises (lines 202-205)
MainProdDeployed ==
    /\ pc = "promote"
    /\ DeployFinished
    /\ history' = Append(history, FrameRecord)
    /\ IF AfterDeploy(dpc, "verify_prod") = "verify_prod"
       THEN /\ pc' = "verify_prod"
            /\ UNCHANGED <<exitStatus, endedAt>>
       ELSE Exit(SysExit(1), "promote")
    /\ UNCHANGED <<remoteVars, envVars, frameVars, ncalls, tests>>

\* lines 194-200: the production tests end
MainProdTested ==
    /\ pc = "verify_prod"
    /\ \E passed \in TestRuns :
        /\ tests' = Append(tests, [env |-> DATAIKU_INFRA_ID_PROD, passed |-> passed])
        /\ IF AfterProdTests(passed) = "return"
           THEN Exit(0, "end")
           ELSE Exit(SysExit(1), "verify_prod")
    /\ UNCHANGED <<remoteVars, envVars, frameVars, history, ncalls>>

\* the environment: the checkout moves to another commit, or goes away, while
\* no deploy call is reading it (get_git_sha runs at the entry of deploy only)
HeadChange ==
    /\ headChanges < MaxHeadChanges
    /\ \/ pc = "verify_staging"
       \/ pc = "harness" /\ dpc \in {"idle", "returned", "raised"}
    /\ \E h \in Heads \ {head} : head' = h
    /\ headChanges' = headChanges + 1
    /\ UNCHANGED <<remoteVars, faults, RUN_TESTS_ONLY, frameVars, mainVars>>

\* a direct caller of deploy: one call after the other, any infra; history
\* keeps the call that ended last
CallDeploy ==
    /\ pc = "harness"
    /\ dpc \in {"idle", "returned", "raised"}
    /\ ncalls < MaxCalls
    /\ ncalls' = ncalls + 1
    /\ history' = IF dpc = "idle" THEN history ELSE <<FrameRecord>>
    /\ \E infra \in Infras : DeployEnter(infra)
    /\ UNCHANGED <<remoteVars, envVars, pc, tests, exitStatus, endedAt>>

(* ------------------------------- Init ---------------------------------- *)
\* any state of the remote side earlier runs can have left: every deployment is
\* the one of an infra, and a published bundle was exported before (line 124
\* publishes what line 116 exported, and nothing is deleted)
InitRemote ==
    /\ projectBundles \in SUBSET InitBundleIds
    /\ deployerProject \in BOOLEAN
    /\ deployerBundles \in SUBSET projectBundles
    /\ deployerBundles # {} => deployerProject
    /\ deployments \in
          {{Deployment(deployment_id_of(DATAIKU_PROJECT_KEY, i), DATAIKU_PROJECT_KEY, i, f[i]) :
                i \in DOMAIN f} :
             f \in UNION {[I -> InitBundleIds] : I \in SUBSET Infras}}
    /\ \A d \in deployments : d.bundleId \in deployerBundles
    /\ startDeployments = deployments

InitCommon ==
    /\ InitRemote
    /\ head \in Heads
    /\ headChanges = 0
    /\ faults = 0
    /\ RUN_TESTS_ONLY \in BOOLEAN
    /\ dpc = "idle"
    /\ infra_id = "None"
    /\ commit_id = "None"
    /\ bundle_id = "None"
    /\ bundle_exists = FALSE
    /\ deployment = "None"
    /\ calls = <<>>
    /\ history = <<>>
    /\ ncalls = 0
    /\ tests = <<>>
    /\ exitStatus = -1
    /\ endedAt = "None"

Init == InitCommon /\ pc = "start"

Next ==
    \/ MainDeployStaging
    \/ DeployListBundles
    \/ DeployExportBundle
    \/ DeployPublishBundle
    \/ DeployGetDeployment
    \/ DeploySaveSettings
    \/ DeployCreateDeployment
    \/ DeployStartUpdate
    \/ DeployWaitForResult
    \/ MainStagingDeployed
    \/ MainStagingTested
    \/ MainProdDeployed
    \/ MainProdTested
    \/ HeadChange

Spec == Init /\ [][Next]_vars

\* deploy under a direct caller
InitDeploy == InitCommon /\ pc = "harness" /\ RUN_TESTS_ONLY = FALSE

NextDeploy ==
    \/ CallDeploy
    \/ DeployListBundles
    \/ DeployExportBundle
    \/ DeployPublishBundle
    \/ DeployGetDeployment
    \/ DeploySaveSettings
    \/ DeployCreateDeployment
    \/ DeployStartUpdate
    \/ DeployWaitForResult
    \/ HeadChange

SpecDeploy == InitDeploy /\ [][NextDeploy]_vars

\* main with every remote call and every test run returning in the end: the
\* script is one thread of blocking calls, so a step that can be taken is taken
FairSpec == Init /\ [][Next]_vars /\ WF_vars(Next)


(* ============================== claims ================================== *)
ExportOps == {"export_bundle", "publish_bundle"}
Called(op) == \E i \in DOMAIN calls : calls[i].op = op
\* no remote call of the running deploy call failed with a transient error
NoTransientError == \A i \in DOMAIN calls : calls[i].err # ErrRemote
DeploymentIdHere == deployment_id_of(DATAIKU_PROJECT_KEY, infra_id)

\* the running deploy call follows, for the same infra and revision, a call
\* that returned without raising
RepeatsSuccessfulCall ==
    /\ pc = "harness"
    /\ history # <<>>
    /\ dpc # "idle"
    /\ Last(history).outcome = "returned"
    /\ Last(history).infra_id = infra_id
    /\ Last(history).commit_id = commit_id

\* what C1 promises of the second call
SecondCallIsNoOp ==
    /\ dpc # "raised"
    /\ ~Called("export_bundle")
    /\ ~Called("publish_bundle")
    /\ ~Called("create_deployment")
    /\ Len(calls) >= 1 => bundle_exists
    /\ DeployFinished => BoundBundle(DeploymentIdHere) = Last(history).bound

C3_ExportOnlyIfNotListed ==
    \A i \in DOMAIN calls :
        calls[i].op \in ExportOps =>
            /\ i > 1
            /\ calls[1].op = "list_bundles"
            /\ bundle_id \notin calls[1].ret

\* the listing reported the bundle and the call went through without an export
C3_Witness ==
    /\ dpc = "returned"
    /\ calls[1].op = "list_bundles"
    /\ bundle_id \in calls[1].ret
    /\ ~Called("export_bundle") /\ ~Called("publish_bundle")

IsConflict(c) == ~c.ok /\ Contains(<<"already", "exists">>, c.err)

\* C4: an export that fails with "already exists" does not end the deploy call:
\* the next remote call is publish_bundle for the same bundle, a successful
\* publish is followed by the deployment lookup, and the call raises only if a
\* later remote call fails.
C4_ConflictSwallowed ==
    \A i \in DOMAIN calls :
        (calls[i].op = "export_bundle" /\ IsConflict(calls[i])) =>
            /\ i = Len(calls) => dpc = "publish"
            /\ i < Len(calls) =>
                /\ calls[i + 1].op = "publish_bundle"
                /\ calls[i + 1].arg = calls[i].arg
                /\ calls[i + 1].arg = <<bundle_id>>
                /\ calls[i + 1].ok =>
                    /\ i + 1 = Len(calls) => dpc = "get"
                    /\ i + 1 < Len(calls) => calls[i + 2].op = "get_deployment"
            /\ dpc = "raised" => (Len(calls) > i /\ ~Last(calls).ok)
            /\ dpc = "returned" => (Called("start_update") /\ Called("wait_for_result"))

C4_Witness ==
    /\ dpc = "returned"
    /\ \E i \in DOMAIN calls : calls[i].op = "export_bundle" /\ IsConflict(calls[i])
    /\ \E i \in DOMAIN calls : calls[i].op = "publish_bundle" /\ calls[i].ok

\* C5: an export that fails otherwise is the last remote call of its deploy
\* call, which raises: no publish, no deployment lookup, update or creation and
\* no activation follows it.
C5_ExportFailureFatal ==
    \A i \in DOMAIN calls :
        (calls[i].op = "export_bundle" /\ ~calls[i].ok /\ ~IsConflict(calls[i])) =>
            /\ i = Len(calls)
            /\ dpc = "raised"

\* the failed export made main end with the handler of line 202
C5_Witness ==
    /\ pc = "done"
    /\ endedAt = "stage"
    /\ Last(calls).op = "export_bundle"
    /\ ~Last(calls).ok /\ ~IsConflict(Last(calls))
    /\ ~Called("publish_bundle") /\ ~Called("get_deployment")


Failed(c) == ~c.ok
NumberOf(op) == Cardinality({i \in DOMAIN calls : calls[i].op = op})
ProdDeploymentId == deployment_id_of(DATAIKU_PROJECT_KEY, DATAIKU_INFRA_ID_PROD)
ProdDeploymentOf(ds) == {d \in ds : d.deploymentId = ProdDeploymentId}

\* C6 as stated: a failed deployment lookup is followed by exactly one
\* create_deployment with the identifier, project key, infra and bundle of the
\* call; a successful lookup is followed by the save of the new bundle and by
\* no create_deployment in that deploy call, also when the save fails.
C6_CreateOrUpdate ==
    \A i \in DOMAIN calls :
        calls[i].op = "get_deployment" =>
            /\ calls[i].arg = <<DeploymentIdHere>>
            /\ (Failed(calls[i]) /\ i < Len(calls)) =>
                /\ calls[i + 1].op = "create_deployment"
                /\ calls[i + 1].arg =
                      <<DeploymentIdHere, DATAIKU_PROJECT_KEY, infra_id, bundle_id>>
                /\ NumberOf("create_deployment") = 1
            /\ (Failed(calls[i]) /\ i = Len(calls)) => dpc = "create"
            /\ (calls[i].ok /\ i < Len(calls)) =>
                /\ calls[i + 1].op = "save_settings"
                /\ calls[i + 1].arg = <<DeploymentIdHere, bundle_id>>
            /\ calls[i].ok =>
                /\ ~Called("create_deployment")
                /\ dpc # "create"

\* C7 as stated: an awaited activation that ends with a non-success result
\* makes deploy raise, so main runs no verification after it.
C7_ActivationFailureFatal ==
    \A i \in DOMAIN calls :
        (calls[i].op = "wait_for_result" /\ calls[i].ok /\ "FAILURE" \in calls[i].ret) =>
            /\ dpc = "raised"
            /\ pc \notin {"verify_staging", "verify_prod"}
            /\ pc = "done" => exitStatus # 0

\* C8 as stated: a failed publish, save of an existing deployment's settings,
\* create_deployment or start_update is the last remote call of its deploy
\* call, and that call raises.
C8_RemoteFailureFatal ==
    \A i \in DOMAIN calls :
        (Failed(calls[i]) /\
         calls[i].op \in {"publish_bundle", "save_settings", "create_deployment",
                          "start_update"}) =>
            /\ i = Len(calls)
            /\ dpc = "raised"

\* C9: once the staging tests have passed in a run with RUN_TESTS_ONLY set,
\* the run is over, no deploy call of it targeted the prod infra, no remote call
\* named the prod deployment, and the prod deployment is as it was at the start.
C9_ShortCircuit ==
    (RUN_TESTS_ONLY /\ tests # <<>> /\ tests[1].passed) =>
        /\ pc = "done"
        /\ Len(tests) = 1
        /\ infra_id # DATAIKU_INFRA_ID_PROD
        /\ \A i \in DOMAIN history : history[i].infra_id # DATAIKU_INFRA_ID_PROD
        /\ \A i \in DOMAIN calls : calls[i].arg[1] # ProdDeploymentId
        /\ ProdDeploymentOf(deployments) = ProdDeploymentOf(startDeployments)

\* the run stopped at the early exit and left an existing prod deployment on a
\* bundle other than the one just staged
C9_Witness ==
    /\ RUN_TESTS_ONLY
    /\ endedAt = "early_exit"
    /\ tests[1].passed
    /\ ProdDeploymentOf(deployments) # {}
    /\ BoundBundle(ProdDeploymentId) # bundle_id

\* C10: failed staging tests end the run with a non-zero status and without a
\* deploy call for prod; failed prod tests end the run with a non-zero status
\* after the deploy call for prod has returned without raising, and the prod
\* deployment stays bound as that call left it.
C10_FatalOrWarning ==
    /\ (tests # <<>> /\ ~tests[1].passed) =>
        /\ pc = "done"
        /\ exitStatus > 0
        /\ Len(tests) = 1
        /\ infra_id # DATAIKU_INFRA_ID_PROD
        /\ \A i \in DOMAIN history : history[i].infra_id # DATAIKU_INFRA_ID_PROD
    /\ (Len(tests) = 2 /\ ~tests[2].passed) =>
        /\ pc = "done"
        /\ exitStatus > 0
        /\ tests[2].env = DATAIKU_INFRA_ID_PROD
        /\ Len(history) = 2
        /\ history[2].infra_id = DATAIKU_INFRA_ID_PROD
        /\ history[2].outcome = "returned"
        /\ BoundBundle(ProdDeploymentId) = history[2].bound
        /\ BoundBundle(ProdDeploymentId) = history[2].bundle_id

\* the prod tests failed after a deploy call that rebound or created the prod
\* deployment
C10_Witness ==
    /\ pc = "done"
    /\ endedAt = "verify_prod"
    /\ Len(tests) = 2 /\ tests[1].passed /\ ~tests[2].passed
    /\ ProdDeploymentOf(deployments) # ProdDeploymentOf(startDeployments)

\* the terminal state of the promotion a finished run is in
TerminalState ==
    CASE endedAt = "stage" -> "FailedAtStage"
      [] endedAt = "verify_staging" -> "FailedAtStagingVerification"
      [] endedAt = "promote" -> "FailedAtPromote"
      [] endedAt = "verify_prod" -> "SucceededButProdVerificationFailed"
      [] endedAt \in {"early_exit", "end"} -> "Success"
      [] OTHER -> "None"

\* C11 as stated: the exit status is 0 when both deploy calls return and both
\* test runs pass, and is 0 when RUN_TESTS_ONLY is set and the staging deploy
\* call returns and the staging tests pass.
C11_SuccessStatus ==
    pc = "done" =>
        /\ (Len(tests) = 2 /\ tests[1].passed /\ tests[2].passed) => exitStatus = 0
        /\ (RUN_TESTS_ONLY /\ Len(tests) = 1 /\ tests[1].passed) => exitStatus = 0

\* C12: a run in which a deploy call raised or a test run failed ends with a
\* non-zero exit status; a run that ends with status 0 had no such failure.
C12_FailureStatus ==
    pc = "done" =>
        /\ exitStatus # -1
        /\ (\E i \in DOMAIN history : history[i].outcome = "raised") => exitStatus > 0
        /\ (\E i \in DOMAIN tests : ~tests[i].passed) => exitStatus > 0
        /\ endedAt \in {"stage", "verify_staging", "promote", "verify_prod"} => exitStatus > 0
        /\ exitStatus = 0 =>
            /\ \A i \in DOMAIN history : history[i].outcome = "returned"
            /\ \A i \in DOMAIN tests : tests[i].passed

\* each of the four failures ended a run
C12_Witness ==
    /\ pc = "done"
    /\ exitStatus > 0
    /\ endedAt = "promote"
    /\ Len(history) = 2 /\ history[2].outcome = "raised"
    /\ tests[1].passed

\* C13 as stated: the deploy call for prod uses the revision and the bundle
\* the deploy call for staging used, so a run that completes the deploy call
\* for prod leaves both deployments bound to the same bundle.
C13_SameArtifact ==
    /\ (pc = "promote" /\ history # <<>>) =>
        /\ commit_id = history[1].commit_id
        /\ bundle_id = history[1].bundle_id
    /\ (Len(history) = 2 /\ history[2].outcome = "returned") =>
        /\ history[2].bundle_id = history[1].bundle_id
        /\ BoundBundle(ProdDeploymentId) =
              BoundBundle(deployment_id_of(DATAIKU_PROJECT_KEY, DATAIKU_INFRA_ID_STAGING))

ListingFailedNotFound ==
    /\ calls # <<>>
    /\ calls[1].op = "list_bundles"
    /\ ~calls[1].ok
    /\ calls[1].err = ErrNotFound

\* C14: a bundle listing that fails because the Deployer does not know the
\* project leaves the bundle counted as absent: the next remote call is
\* export_bundle for the bundle of the revision, then publish_bundle, then the
\* deployment lookup, and the deploy call raises only if a later call fails.
C14_FirstRun ==
    ListingFailedNotFound =>
        /\ ~bundle_exists
        /\ Len(calls) = 1 => dpc = "export"
        /\ Len(calls) > 1 =>
            /\ calls[2].op = "export_bundle"
            /\ calls[2].arg = <<bundle_id>>
        /\ (Len(calls) > 2 /\ (calls[2].ok \/ IsConflict(calls[2]))) =>
            /\ calls[3].op = "publish_bundle"
            /\ calls[3].arg = <<bundle_id>>
        /\ (Len(calls) > 3 /\ calls[3].ok) => calls[4].op = "get_deployment"
        /\ dpc = "raised" => (Len(calls) > 1 /\ ~Last(calls).ok)
        /\ dpc = "returned" =>
            /\ bundle_id \in deployerBundles
            /\ Called("start_update") /\ Called("wait_for_result")

\* a first run: the project unknown to the Deployer, the bundle exported and
\* published, the deployment created and activated
C14_Witness ==
    /\ ListingFailedNotFound
    /\ dpc = "returned"
    /\ \E i \in DOMAIN calls : calls[i].op = "export_bundle" /\ calls[i].ok
    /\ \E i \in DOMAIN calls : calls[i].op = "publish_bundle" /\ calls[i].ok
    /\ \E i \in DOMAIN calls : calls[i].op = "create_deployment" /\ calls[i].ok

\* C15 as stated: the Deployer holds at most one deployment for an infra of
\* the project, named deploy_<key>_<infra> whatever the revision, and
\* create_deployment is not issued for an identifier the Deployer holds.
C15_OneDeployment ==
    /\ \A d, e \in deployments :
        (d.projectKey = e.projectKey /\ d.infraId = e.infraId) => d = e
    /\ \A d \in deployments :
        d.deploymentId = deployment_id_of(d.projectKey, d.infraId)
    /\ dpc = "create" => ~DeploymentExists(DeploymentIdHere)
    /\ \A i \in DOMAIN calls :
        calls[i].op = "create_deployment" => ~Contains(<<"already", "exists">>, calls[i].err)

BindingOps == {"save_settings", "create_deployment"}
BindingReached == dpc \in {"get", "save", "create"} \/ Called("get_deployment")
ActivationReached == dpc \in {"start", "wait"} \/ Called("start_update")

\* C16: the deployment lookup is reached only with the bundle of the revision
\* in the Deployer, found by the listing or published by this call; the
\* activation is started only after a save or a create of this call bound the
\* deployment to that bundle, and the bundle it is bound to is in the Deployer.
C16_StepOrder ==
    /\ BindingReached =>
        /\ bundle_id \in deployerBundles
        /\ \/ (calls[1].op = "list_bundles" /\ bundle_id \in calls[1].ret)
           \/ \E i \in DOMAIN calls : calls[i].op = "publish_bundle" /\ calls[i].ok
    /\ ActivationReached =>
        /\ BindingReached
        /\ \E i \in DOMAIN calls :
            /\ calls[i].op \in BindingOps /\ calls[i].ok
            /\ \A j \in DOMAIN calls : calls[j].op = "start_update" => i < j
        /\ BoundBundle(DeploymentIdHere) = bundle_id
        /\ BoundBundle(DeploymentIdHere) \in deployerBundles

\* the activation started on a deployment created for a bundle this call published
C16_Witness ==
    /\ dpc = "wait"
    /\ \E i \in DOMAIN calls : calls[i].op = "publish_bundle" /\ calls[i].ok
    /\ \E i \in DOMAIN calls : calls[i].op = "create_deployment" /\ calls[i].ok

StageOrder == <<DATAIKU_INFRA_ID_STAGING, DATAIKU_INFRA_ID_PROD>>

\* C17: the staging tests start only after the deploy call for staging
\* returned, the deploy call for prod only after the staging tests passed, the
\* prod tests only after the deploy call for prod returned; each stage is
\* entered at most once, in this order, and a deploy call for staging that
\* raises ends the run with no tests and no deploy call for prod.
C17_LinearOrder ==
    /\ Len(history) <= 2 /\ Len(tests) <= 2
    /\ \A i \in DOMAIN history : history[i].infra_id = StageOrder[i]
    /\ \A i \in DOMAIN tests : tests[i].env = StageOrder[i]
    /\ (pc = "verify_staging" \/ tests # <<>>) =>
        /\ history # <<>>
        /\ history[1].outcome = "returned"
    /\ (pc \in {"promote", "verify_prod"} \/ Len(history) = 2
            \/ infra_id = DATAIKU_INFRA_ID_PROD) =>
        /\ tests # <<>>
        /\ tests[1].passed
    /\ (pc = "verify_prod" \/ Len(tests) = 2) =>
        /\ Len(history) = 2
        /\ history[2].outcome = "returned"
    /\ (history # <<>> /\ history[1].outcome = "raised") =>
        /\ pc = "done"
        /\ tests = <<>>
        /\ Len(history) = 1
        /\ infra_id = DATAIKU_INFRA_ID_STAGING

\* a run through all four stages
C17_Witness ==
    /\ pc = "done"
    /\ endedAt = "end"
    /\ Len(history) = 2 /\ Len(tests) = 2

Terminals ==
    {"Success", "FailedAtStage", "FailedAtStagingVerification", "FailedAtPromote",
     "SucceededButProdVerificationFailed"}

\* no remote operation is called twice in a deploy call, and no deploy call
\* follows one that raised
NoRetry ==
    /\ \A i, j \in DOMAIN calls : calls[i].op = calls[j].op => i = j
    /\ \A i \in DOMAIN history :
        history[i].outcome = "raised" => (i = Len(history) /\ pc = "done")

\* C18: with every remote call and test run returning, a run of main ends,
\* and stays, in one of the five terminal states, and retries nothing.
C18_Terminates ==
    /\ <>[](pc = "done" /\ TerminalState \in Terminals)
    /\ [](pc = "done" <=> TerminalState \in Terminals)
    /\ []NoRetry

\* a failed start of the activation ended the run, without a second start
C18_Witness ==
    /\ pc = "done"
    /\ TerminalState = "FailedAtPromote"
    /\ Last(calls).op = "start_update" /\ ~Last(calls).ok
    /\ NumberOf("start_update") = 1

CalledExport(ops) == \E ok \in BOOLEAN : <<"export_bundle", ok>> \in ops
CalledPublish(ops) == \E ok \in BOOLEAN : <<"publish_bundle", ok>> \in ops
FrameOpen == pc \in {"stage", "promote"}

\* C19 as stated: after a deploy call for staging that returned, the deploy
\* call for prod calls neither export_bundle nor publish_bundle, and a run
\* calls each of them at most once.
C19_SingleExport ==
    /\ (history # <<>> /\ history[1].outcome = "returned"
            /\ infra_id = DATAIKU_INFRA_ID_PROD) =>
        /\ ~Called("export_bundle")
        /\ ~Called("publish_bundle")
    /\ Cardinality({i \in DOMAIN history : CalledExport(history[i].ops)})
          + (IF FrameOpen /\ Called("export_bundle") THEN 1 ELSE 0) <= 1
    /\ Cardinality({i \in DOMAIN history : CalledPublish(history[i].ops)})
          + (IF FrameOpen /\ Called("publish_bundle") THEN 1 ELSE 0) <= 1

MutatingOps == {"publish_bundle", "save_settings", "create_deployment", "start_update"}
EarlyFailures == {"FailedAtStage", "FailedAtStagingVerification", "FailedAtPromote"}
Applied(ops, op) == <<op, TRUE>> \in ops

\* C20 as stated: a run that ends in FailedAtStage, FailedAtStagingVerification
\* or FailedAtPromote has applied no publish, deployment update or creation,
\* or activation.
C20_AsStated ==
    (pc = "done" /\ TerminalState \in EarlyFailures) =>
        \A i \in DOMAIN history : \A op \in MutatingOps : ~Applied(history[i].ops, op)

\* C20 amended: a run that ends in one of these three states has awaited no
\* activation of the prod deployment to its end; a run that ends in
\* SucceededButProdVerificationFailed has bound the prod deployment and awaited
\* its activation, and the binding stands.
C20_ProdActivationOnlyAtLast ==
    /\ (pc = "done" /\ TerminalState \in EarlyFailures) =>
        \A i \in DOMAIN history :
            history[i].infra_id = DATAIKU_INFRA_ID_PROD =>
                ~Applied(history[i].ops, "wait_for_result")
    /\ (pc = "done" /\ TerminalState = "SucceededButProdVerificationFailed") =>
        \E i \in DOMAIN history :
            /\ history[i].infra_id = DATAIKU_INFRA_ID_PROD
            /\ Applied(history[i].ops, "wait_for_result")
            /\ \E op \in BindingOps : Applied(history[i].ops, op)
            /\ BoundBundle(ProdDeploymentId) = history[i].bundle_id

\* failed staging tests ended a run that had published a bundle and created
\* the staging deployment, both still there
C20_Witness ==
    /\ pc = "done"
    /\ TerminalState = "FailedAtStagingVerification"
    /\ Applied(history[1].ops, "publish_bundle")
    /\ Applied(history[1].ops, "create_deployment")
    /\ history[1].bundle_id \in deployerBundles
    /\ DeploymentExists(deployment_id_of(DATAIKU_PROJECT_KEY, DATAIKU_INFRA_ID_STAGING))

====
